---- MODULE Spec2Model ----
(***************************************************************************)
(* Model of the column-layout engine of listare (src/src/tabulate.rs):     *)
(* Tabulator::get_column_config (the layout search) and the Display impl   *)
(* of Tabulator (the grid renderer).                                       *)
(*                                                                         *)
(* An item is represented by its display width (characters_long); the      *)
(* rendered text of item i is modelled as width-many copies of the         *)
(* character i, so that the output text shows which item was written.      *)
(* Indices (file_idx, col_idx, row, col, idx, position) are 0-based as in  *)
(* the Rust code; TLA+ sequences are 1-based, so a Vec access v[k] is      *)
(* written v[k + 1].                                                       *)
(***************************************************************************)
EXTENDS Integers, Sequences, FiniteSets, TLC

\* ---------------------------------------------------------------- bounds
MaxItems == 4        \* longest item sequence explored
MaxWidth == 3        \* display widths 0..MaxWidth are explored ...
WideWidth == 14      \* ... plus one item width wider than short lines
MaxLineLen == 12     \* max_line_length ranges over 0..MaxLineLen
MaxCols == 3         \* the terminal reports 0..MaxCols columns
MaxEnvLen == 2       \* longest value of the COLUMNS variable explored

\* ------------------------------------------------------ program constants
MIN_COLUMN_WIDTH == 3
DEFAULT == 80

\* characters of the output text that are not item characters
SPACE == 0 - 1
NEWLINE == 0 - 2

Widths == (0..MaxWidth) \cup {WideWidth}
Orientations == {"Columns", "Rows"}

VARIABLES
    data,             \* Tabulator.data: the display width of each item
    max_line_length,  \* Tabulator.max_line_length
    orientation,      \* Tabulator.orientation
    pc,               \* position of the render call
    configs,          \* get_column_config: the candidate list
    file_idx,         \* get_column_config: index of the next item to scan
    searchResult,     \* what get_column_config returned: none / Ok / EmptyData
    config,           \* fmt: the configuration returned by the search
    rows,             \* fmt: number of rows
    row,              \* fmt: next row to write
    cells,            \* the cells written so far, <<row, col, idx>>
    out,              \* the text written to the formatter so far
    fmtResult,        \* what fmt returned: none / Ok
    panicked,         \* TRUE once the code would have panicked
    ioctl_rc,         \* get_winsize: what ioctl(TIOCGWINSZ) returns
    ws_col,           \* get_winsize: the column count the terminal reports
    w_folded,         \* get_winsize: the build reads the immutable w as built
    COLUMNS,          \* the COLUMNS environment variable
    winsize           \* get_line_length: what get_winsize returned

termvars == <<ioctl_rc, ws_col, w_folded, COLUMNS, winsize>>

vars == <<data, max_line_length, orientation, pc, configs, file_idx,
          searchResult, config, rows, row, cells, out, fmtResult, panicked,
          termvars>>

\* ---------------------------------------------------------------- helpers
Max(a, b) == IF a >= b THEN a ELSE b
Min(a, b) == IF a <= b THEN a ELSE b

SeqsUpTo(S, n) == UNION {[1..k -> S] : k \in 0..n}

NoConfig == [num_columns |-> 0, col_widths |-> <<>>, line_len |-> 0, valid |-> FALSE]

\* ----------------------------------------------------- init_column_configs
MaxColumns_NoFloor(max_len, num_items, min_col_width) ==
    Min(max_len \div min_col_width, num_items)

MaxColumns_NoClamp(max_len, num_items, min_col_width) ==
    Max(1, max_len \div min_col_width)

MaxColumns(max_len, num_items, min_col_width) ==
    Min(Max(1, max_len \div min_col_width), num_items)

init_column_configs(max_len, num_items, min_col_width) ==
    [num_columns \in 1..MaxColumns(max_len, num_items, min_col_width) |->
        [num_columns |-> num_columns,
         col_widths  |-> [j \in 1..num_columns |-> min_col_width],
         line_len    |-> num_columns * min_col_width,
         valid       |-> TRUE]]

\* ------------------------------------------------------- get_column_config
DataIsEmpty_OffByOne(d) == Len(d) <= 1

DataIsEmpty(d) == Len(d) = 0

\* the divisor of the Columns branch of col_idx
ColDivisor(n, c) == (n + c - 1) \div c

ColIdx_FloorDivisor(orient, idx, n, c) ==
    IF orient = "Rows" THEN idx % c ELSE idx \div (n \div c)

ColIdx_RowsOnly(orient, idx, n, c) == idx % c

ColIdx(orient, idx, n, c) ==
    IF orient = "Rows" THEN idx % c ELSE idx \div ColDivisor(n, c)

\* the scan of one item against one candidate panics (division by zero,
\* subtraction below zero, or index out of bounds)
ScanPanics(cfg, orient, idx, n) ==
    /\ cfg.valid
    /\ \/ cfg.num_columns = 0
       \/ (orient = "Columns" /\ ColDivisor(n, cfg.num_columns) = 0)
       \/ ColIdx(orient, idx, n, cfg.num_columns) >= Len(cfg.col_widths)

RealLen_NoSep(w, col_idx, c) == w

RealLen_OneSep(w, col_idx, c) == w + (IF col_idx = c - 1 THEN 0 ELSE 1)

RealLen_AlwaysSep(w, col_idx, c) == w + (IF col_idx = c THEN 0 ELSE 2)

RealLen(w, col_idx, c) == w + (IF col_idx = c - 1 THEN 0 ELSE 2)

Fits_NoCheck(line_len, max_len) == TRUE

Fits_Inverted(line_len, max_len) == line_len > max_len

Fits_AllowTwoOver(line_len, max_len) == line_len < max_len + 2

Fits(line_len, max_len) == line_len < max_len

UpdateConfig_NoSkip(cfg, orient, idx, w, n, max_len) ==
    LET col_idx  == ColIdx(orient, idx, n, cfg.num_columns)
        real_len == RealLen(w, col_idx, cfg.num_columns)
        old      == cfg.col_widths[col_idx + 1]
        new_len  == cfg.line_len + (real_len - old)
    IN  IF old < real_len
        THEN [cfg EXCEPT !.line_len = new_len,
                         !.col_widths[col_idx + 1] = real_len,
                         !.valid = Fits(new_len, max_len)]
        ELSE cfg

UpdateConfig_NoDelta(cfg, orient, idx, w, n, max_len) ==
    IF ~cfg.valid THEN cfg
    ELSE LET col_idx  == ColIdx(orient, idx, n, cfg.num_columns)
             real_len == RealLen(w, col_idx, cfg.num_columns)
             old      == cfg.col_widths[col_idx + 1]
             new_len  == cfg.line_len + real_len
         IN  IF old < real_len
             THEN [cfg EXCEPT !.line_len = new_len,
                              !.col_widths[col_idx + 1] = real_len,
                              !.valid = Fits(new_len, max_len)]
             ELSE cfg

\* body of the inner loop: one item against one candidate
UpdateConfig(cfg, orient, idx, w, n, max_len) ==
    IF ~cfg.valid THEN cfg
    ELSE LET col_idx  == ColIdx(orient, idx, n, cfg.num_columns)
             real_len == RealLen(w, col_idx, cfg.num_columns)
             old      == cfg.col_widths[col_idx + 1]
             new_len  == cfg.line_len + (real_len - old)
         IN  IF old < real_len
             THEN [cfg EXCEPT !.line_len = new_len,
                              !.col_widths[col_idx + 1] = real_len,
                              !.valid = Fits(new_len, max_len)]
             ELSE cfg

\* configs.iter().rposition(|config| config.valid): 0-based, -1 for None
RPositionValid(cfgs) ==
    IF \E k \in 1..Len(cfgs) : cfgs[k].valid
    THEN (CHOOSE k \in 1..Len(cfgs) :
            /\ cfgs[k].valid
            /\ \A m \in (k + 1)..Len(cfgs) : ~cfgs[m].valid) - 1
    ELSE 0 - 1

PositionValid(cfgs) ==
    IF \E k \in 1..Len(cfgs) : cfgs[k].valid
    THEN (CHOOSE k \in 1..Len(cfgs) :
            /\ cfgs[k].valid
            /\ \A m \in 1..(k - 1) : ~cfgs[m].valid) - 1
    ELSE 0 - 1

SelectPosition_First(cfgs) ==
    IF PositionValid(cfgs) >= 0 THEN PositionValid(cfgs) ELSE 0

SelectPosition_FallbackLast(cfgs) ==
    IF RPositionValid(cfgs) >= 0 THEN RPositionValid(cfgs) ELSE Len(cfgs) - 1

\* rposition(..).unwrap_or(0)
SelectPosition(cfgs) ==
    IF RPositionValid(cfgs) >= 0 THEN RPositionValid(cfgs) ELSE 0

\* configs.remove(position): what is left of the list
RemoveAt(cfgs, position) ==
    [k \in 1..(Len(cfgs) - 1) |-> IF k <= position THEN cfgs[k] ELSE cfgs[k + 1]]

\* ---------------------------------------------------------------- Display
RowCount_Floor(n, c) == n \div c

RowCount_AlwaysPlusOne(n, c) == (n \div c) + 1

RowCount(n, c) == (n \div c) + (IF n % c # 0 THEN 1 ELSE 0)

CellIndex_ColumnsByC(orient, r, col, c, nrows) ==
    IF orient = "Rows" THEN r * c + col ELSE r + (col * c)

CellIndex_Swapped(orient, r, col, c, nrows) ==
    IF orient = "Rows" THEN r + (col * nrows) ELSE r * c + col

CellIndex(orient, r, col, c, nrows) ==
    IF orient = "Rows" THEN r * c + col ELSE r + (col * nrows)

\* write!(f, "{:width$}", entry, width): the item's characters, then
\* spaces up to width; never truncated
Pad(idx, w, width) == [j \in 1..Max(w, width) |-> IF j <= w THEN idx ELSE SPACE]

RECURSIVE RowCellsFrom(_, _, _, _, _, _)
RowCellsFrom(col, orient, r, c, nrows, n) ==
    IF col >= c THEN <<>>
    ELSE LET idx == CellIndex(orient, r, col, c, nrows)
         IN  (IF idx < n THEN << <<r, col, idx>> >> ELSE <<>>)
             \o RowCellsFrom(col + 1, orient, r, c, nrows, n)

RECURSIVE CellsText(_, _, _)
CellsText(cs, d, widths) ==
    IF cs = <<>> THEN <<>>
    ELSE Pad(Head(cs)[3], d[Head(cs)[3] + 1], widths[Head(cs)[2] + 1])
         \o CellsText(Tail(cs), d, widths)

RowEnd_Always(r, nrows) == <<NEWLINE>>

\* if not the last row, a newline
RowEnd(r, nrows) == IF r < nrows - 1 THEN <<NEWLINE>> ELSE <<>>

\* writing one row panics: a populated cell indexes col_widths out of bounds
RowPanics(cs, widths) == \E k \in 1..Len(cs) : cs[k][2] >= Len(widths)

\* ----------------------------------------------------------- get_winsize
NoWinSize == [some |-> FALSE, rows |-> 0, cols |-> 0]

\* w is built with ws_col = 0 and bound without mut; ioctl writes the
\* terminal's column count through &w. Writing to an immutable binding is
\* undefined behaviour: a build may read the written value back, or may read
\* the value w was built with (folded).
get_winsize(rc, written_col, folded) ==
    LET seen_col == IF folded THEN 0 ELSE written_col
    IN  IF rc = 0 /\ seen_col > 0
        THEN [some |-> TRUE, rows |-> 0, cols |-> seen_col]
        ELSE NoWinSize

\* ------------------------------------------------------- get_line_length
EnvChars == {"0", "1", "7", "+", "-", "x"}
EnvUnset == [set |-> FALSE, val |-> <<>>]
EnvValues ==
    {EnvUnset} \cup {[set |-> TRUE, val |-> v] : v \in SeqsUpTo(EnvChars, MaxEnvLen)}

Digits == <<"0", "1", "2", "3", "4", "5", "6", "7", "8", "9">>
IsDigit(ch) == \E d \in 1..10 : Digits[d] = ch
DigitVal(ch) == (CHOOSE d \in 1..10 : Digits[d] = ch) - 1

RECURSIVE DigitsValue(_, _)
DigitsValue(s, acc) ==
    IF s = <<>> THEN acc ELSE DigitsValue(Tail(s), acc * 10 + DigitVal(Head(s)))

\* val.parse::<usize>(): an optional leading +, then one or more decimal
\* digits; -1 stands for Err
ParseUsize(s) ==
    LET body == IF s # <<>> /\ Head(s) = "+" THEN Tail(s) ELSE s
    IN  IF body = <<>> \/ \E j \in 1..Len(body) : ~IsDigit(body[j])
        THEN 0 - 1
        ELSE DigitsValue(body, 0)

\* ------------------------------------------------------------------- Init
Init ==
    /\ data \in SeqsUpTo(Widths, MaxItems)
    /\ max_line_length \in 0..MaxLineLen
    /\ orientation \in Orientations
    /\ pc = "fmt"
    /\ configs = <<>>
    /\ file_idx = 0
    /\ searchResult = "none"
    /\ config = NoConfig
    /\ rows = 0
    /\ row = 0
    /\ cells = <<>>
    /\ out = <<>>
    /\ fmtResult = "none"
    /\ panicked = FALSE
    /\ ioctl_rc = 0 - 1
    /\ ws_col = 0
    /\ w_folded = FALSE
    /\ COLUMNS = EnvUnset
    /\ winsize = NoWinSize

\* ---------------------------------------------------------------- actions
\* fmt calls get_column_config on empty data: Err(EmptyData), fmt returns Ok
FmtEmpty ==
    /\ pc = "fmt"
    /\ DataIsEmpty(data)
    /\ searchResult' = "EmptyData"
    /\ fmtResult' = "Ok"
    /\ pc' = "done"
    /\ UNCHANGED <<data, max_line_length, orientation, configs, file_idx,
                   config, rows, row, cells, out, panicked>>
    /\ UNCHANGED termvars

\* fmt calls get_column_config on non-empty data: the candidates are built
SearchInit ==
    /\ pc = "fmt"
    /\ ~DataIsEmpty(data)
    /\ configs' = init_column_configs(max_line_length, Len(data), MIN_COLUMN_WIDTH)
    /\ file_idx' = 0
    /\ pc' = "scan"
    /\ UNCHANGED <<data, max_line_length, orientation, searchResult,
                   config, rows, row, cells, out, fmtResult, panicked>>
    /\ UNCHANGED termvars

\* one iteration of the outer loop: the item at file_idx against every candidate
ScanItem ==
    /\ pc = "scan"
    /\ file_idx < Len(data)
    /\ IF \E k \in 1..Len(configs) :
              ScanPanics(configs[k], orientation, file_idx, Len(data))
       THEN /\ panicked' = TRUE
            /\ pc' = "panic"
            /\ UNCHANGED <<configs, file_idx>>
       ELSE /\ configs' = [k \in 1..Len(configs) |->
                              UpdateConfig(configs[k], orientation, file_idx,
                                           data[file_idx + 1], Len(data),
                                           max_line_length)]
            /\ file_idx' = file_idx + 1
            /\ UNCHANGED <<pc, panicked>>
    /\ UNCHANGED <<data, max_line_length, orientation, searchResult,
                   config, rows, row, cells, out, fmtResult>>
    /\ UNCHANGED termvars

\* after the scan: rposition, remove, return Ok(config); fmt computes rows
Select ==
    /\ pc = "scan"
    /\ file_idx = Len(data)
    /\ LET position == SelectPosition(configs)
       IN  IF position < 0 \/ position >= Len(configs)
           THEN /\ panicked' = TRUE
                /\ pc' = "panic"
                /\ UNCHANGED <<configs, config, searchResult, rows>>
           ELSE LET selected == configs[position + 1]
                IN  /\ config' = selected
                    /\ configs' = RemoveAt(configs, position)
                    /\ searchResult' = "Ok"
                    /\ IF selected.num_columns = 0
                       THEN /\ panicked' = TRUE
                            /\ pc' = "panic"
                            /\ UNCHANGED rows
                       ELSE /\ rows' = RowCount(Len(data), selected.num_columns)
                            /\ pc' = "render"
                            /\ UNCHANGED panicked
    /\ row' = 0
    /\ UNCHANGED <<data, max_line_length, orientation, file_idx,
                   cells, out, fmtResult>>
    /\ UNCHANGED termvars

\* one iteration of the row loop
RenderRow ==
    /\ pc = "render"
    /\ row < rows
    /\ LET cs == RowCellsFrom(0, orientation, row, config.num_columns, rows, Len(data))
       IN  IF RowPanics(cs, config.col_widths)
           THEN /\ panicked' = TRUE
                /\ pc' = "panic"
                /\ UNCHANGED <<cells, out, row>>
           ELSE /\ cells' = cells \o cs
                /\ out' = out \o CellsText(cs, data, config.col_widths)
                              \o RowEnd(row, rows)
                /\ row' = row + 1
                /\ UNCHANGED <<pc, panicked>>
    /\ UNCHANGED <<data, max_line_length, orientation, configs, file_idx,
                   searchResult, config, rows, fmtResult>>
    /\ UNCHANGED termvars

\* the row loop is over: fmt returns Ok
RenderDone ==
    /\ pc = "render"
    /\ row = rows
    /\ fmtResult' = "Ok"
    /\ pc' = "done"
    /\ UNCHANGED <<data, max_line_length, orientation, configs, file_idx,
                   searchResult, config, rows, row, cells, out, panicked>>
    /\ UNCHANGED termvars

Next ==
    \/ FmtEmpty
    \/ SearchInit
    \/ ScanItem
    \/ Select
    \/ RenderRow
    \/ RenderDone

Spec == Init /\ [][Next]_vars

\* ------------------------------------------- main: parse_arguments
\* the state before get_line_length runs: no Tabulator exists yet
InitLineLength ==
    /\ ioctl_rc \in {0, 0 - 1}
    /\ ws_col \in 0..MaxCols
    /\ w_folded \in BOOLEAN
    /\ COLUMNS \in EnvValues
    /\ winsize = NoWinSize
    /\ pc = "get_line_length"
    /\ max_line_length = 0
    /\ data = <<>>
    /\ orientation = "Columns"
    /\ configs = <<>>
    /\ file_idx = 0
    /\ searchResult = "none"
    /\ config = NoConfig
    /\ rows = 0
    /\ row = 0
    /\ cells = <<>>
    /\ out = <<>>
    /\ fmtResult = "none"
    /\ panicked = FALSE

tabvars == <<data, orientation, configs, file_idx, searchResult, config,
             rows, row, cells, out, fmtResult, panicked>>

\* first try using the ioctl system call
CallGetWinsize ==
    /\ pc = "get_line_length"
    /\ winsize' = get_winsize(ioctl_rc, ws_col, w_folded)
    /\ pc' = "winsize"
    /\ UNCHANGED <<max_line_length, ioctl_rc, ws_col, w_folded, COLUMNS, tabvars>>

\* if let Some(winsize): return winsize.cols
ReturnCols ==
    /\ pc = "winsize"
    /\ winsize.some
    /\ max_line_length' = winsize.cols
    /\ pc' = "parsed"
    /\ UNCHANGED <<termvars, tabvars>>

\* if that fails, try the COLUMNS environment variable
TryColumns ==
    /\ pc = "winsize"
    /\ ~winsize.some
    /\ IF COLUMNS.set /\ ParseUsize(COLUMNS.val) > 0
       THEN /\ max_line_length' = ParseUsize(COLUMNS.val)
            /\ pc' = "parsed"
       ELSE /\ pc' = "default"
            /\ UNCHANGED max_line_length
    /\ UNCHANGED <<termvars, tabvars>>

\* if all else fails, return the default value
ReturnDefault ==
    /\ pc = "default"
    /\ max_line_length' = DEFAULT
    /\ pc' = "parsed"
    /\ UNCHANGED <<termvars, tabvars>>

NextLineLength ==
    \/ CallGetWinsize
    \/ ReturnCols
    \/ TryColumns
    \/ ReturnDefault

SpecLineLength == InitLineLength /\ [][NextLineLength]_vars

TypeOK ==
    /\ pc \in {"fmt", "scan", "render", "done", "panic",
              "get_line_length", "winsize", "default", "parsed"}
    /\ searchResult \in {"none", "Ok", "EmptyData"}
    /\ fmtResult \in {"none", "Ok"}
    /\ panicked \in BOOLEAN
    /\ file_idx \in 0..Len(data)
    /\ row \in 0..rows

\* ------------------------------------------------------ properties checked
item_count == Len(data)

\* the search has returned a configuration
Searched == searchResult = "Ok"

\* the render call has returned after laying out a non-empty sequence
Rendered == pc = "done" /\ item_count > 0


\* one item per row, in input order
OnePerRow ==
    /\ rows = item_count
    /\ cells = [j \in 1..item_count |-> <<j - 1, 0, j - 1>>]

\* C1: for a non-empty item sequence and a positive max_line_length, the
\* returned configuration, unless it is the forced single-column fallback
\* (no candidate was valid, so the returned one is not valid), has
\* line_len strictly less than max_line_length.
C1_WidthBound ==
    (Searched /\ max_line_length > 0 /\ config.valid)
        => config.line_len < max_line_length

\* C2: after the scan, the returned candidate has the greatest num_columns
\* among the candidates whose valid flag is true: no candidate left in the
\* list that has more columns is valid, and a valid candidate is never
\* passed over for an invalid one.
C2_GreatestValid ==
    Searched =>
        \A k \in 1..Len(configs) :
            configs[k].valid =>
                /\ configs[k].num_columns < config.num_columns
                /\ config.valid

C2_Witness ==
    /\ Searched
    /\ config.valid
    /\ config.num_columns = 2
    /\ \E k \in 1..Len(configs) : configs[k].valid
    /\ \E k \in 1..Len(configs) :
          ~configs[k].valid /\ configs[k].num_columns > config.num_columns

\* C3: for a non-empty item sequence the renderer uses
\* rows = ceil(n / num_columns), and the cells it writes map
\* one-to-one onto the item indices 0..item_count-1: every item is written
\* exactly once, in distinct cells of the rows x num_columns grid.
C3_RowCountAndBijection ==
    Rendered =>
        /\ rows * config.num_columns >= item_count
        /\ (rows - 1) * config.num_columns < item_count
        /\ Len(cells) = item_count
        /\ \A i \in 0..(item_count - 1) : \E j \in 1..item_count : cells[j][3] = i
        /\ \A j \in 1..item_count :
              /\ cells[j][1] \in 0..(rows - 1)
              /\ cells[j][2] \in 0..(config.num_columns - 1)
        /\ \A j, m \in 1..item_count :
              (cells[j][1] = cells[m][1] /\ cells[j][2] = cells[m][2]) => j = m

C3_Witness ==
    /\ Rendered
    /\ orientation = "Columns"
    /\ item_count = 4
    /\ config.num_columns = 3
    /\ rows = 2

\* C4: the search reports EmptyData if and only if the item sequence is
\* empty, and rendering an empty sequence writes the empty string and
\* returns success.
C4_EmptyData ==
    /\ (searchResult = "EmptyData") => (item_count = 0)
    /\ (item_count = 0 /\ pc # "fmt") =>
          /\ searchResult = "EmptyData"
          /\ pc = "done"
          /\ fmtResult = "Ok"
          /\ out = <<>>
          /\ ~panicked

C4_Witness ==
    /\ item_count = 0
    /\ pc = "done"
    /\ searchResult = "EmptyData"
    /\ fmtResult = "Ok"

\* C5: if no candidate is valid after the scan, the search returns the
\* first candidate, the one with num_columns = 1, whatever its valid flag;
\* a configuration is returned for every non-empty input.
C5_Fallback ==
    /\ (Searched /\ ~config.valid) =>
          /\ config.num_columns = 1
          /\ \A k \in 1..Len(configs) :
                ~configs[k].valid /\ configs[k].num_columns > 1
    /\ (item_count > 0 /\ pc \in {"render", "done"}) => Searched
    /\ (item_count > 0) => pc # "panic"

C5_Witness ==
    /\ Searched
    /\ ~config.valid
    /\ config.num_columns = 1
    /\ Len(configs) >= 2

\* C6: whenever some item is wider than max_line_length, the search does
\* not fail and selects num_columns = 1, and the render writes every item
\* on its own row, in input order.
SomeItemTooWide == \E i \in 1..item_count : data[i] > max_line_length

C6_OverWide ==
    SomeItemTooWide =>
        /\ pc # "panic"
        /\ searchResult # "EmptyData"
        /\ Searched => config.num_columns = 1
        /\ Rendered => OnePerRow

C6_Witness ==
    /\ SomeItemTooWide
    /\ Rendered
    /\ max_line_length >= 2 * MIN_COLUMN_WIDTH
    /\ item_count >= 3
    /\ config.num_columns = 1

\* C7: for max_line_length below MIN_COLUMN_WIDTH and a non-empty item
\* sequence, exactly one candidate (num_columns = 1) is created, the
\* search returns it without failing, and the render writes one item per
\* row.
C7_NarrowLine ==
    (max_line_length < MIN_COLUMN_WIDTH /\ item_count > 0) =>
        /\ pc # "panic"
        /\ searchResult # "EmptyData"
        /\ pc = "scan" => (Len(configs) = 1 /\ configs[1].num_columns = 1)
        /\ Searched => (configs = <<>> /\ config.num_columns = 1)
        /\ Rendered => OnePerRow

C7_Witness ==
    /\ max_line_length < MIN_COLUMN_WIDTH
    /\ max_line_length > 0
    /\ item_count >= 2
    /\ Rendered
    /\ config.num_columns = 1

\* C8: the candidate list holds exactly one configuration for each column
\* count 1..upper, upper = min(max(1, max_line_length div 3), item_count);
\* so the selected num_columns exceeds neither item_count nor
\* max(1, max_line_length div 3).
Upper ==
    LET byWidth == IF max_line_length >= 3 THEN max_line_length \div 3 ELSE 1
    IN  IF byWidth <= item_count THEN byWidth ELSE item_count

C8_CandidateRange ==
    /\ pc = "scan" =>
          /\ Len(configs) = Upper
          /\ \A k \in 1..Len(configs) : configs[k].num_columns = k
    /\ Searched =>
          /\ config.num_columns >= 1
          /\ config.num_columns <= item_count
          /\ config.num_columns <= Upper
          /\ 3 * config.num_columns <= max_line_length \/ config.num_columns = 1

C8_Witness ==
    /\ Searched
    /\ item_count = 4
    /\ max_line_length = 9
    /\ config.num_columns = 3

\* C9: with c = num_columns and rows = ceil(n / c): under Rows item i is
\* written at row i div c, column i mod c, so items i and i+1 share a row
\* in adjacent columns whenever (i+1) mod c # 0; under Columns item i is
\* written at row i mod rows, column i div rows, so items i and i+1 share a
\* column in adjacent rows whenever (i+1) mod rows # 0.
CellOf(i) == CHOOSE cell \in {cells[j] : j \in 1..Len(cells)} : cell[3] = i

C9_Orientation ==
    Rendered =>
        LET c == config.num_columns
        IN  /\ \A i \in 0..(item_count - 1) :
                  /\ \E j \in 1..Len(cells) : cells[j][3] = i
                  /\ orientation = "Rows" =>
                        (CellOf(i)[1] = i \div c /\ CellOf(i)[2] = i % c)
                  /\ orientation = "Columns" =>
                        (CellOf(i)[1] = i % rows /\ CellOf(i)[2] = i \div rows)
            /\ \A i \in 0..(item_count - 2) :
                  /\ (orientation = "Rows" /\ (i + 1) % c # 0) =>
                        /\ CellOf(i + 1)[1] = CellOf(i)[1]
                        /\ CellOf(i + 1)[2] = CellOf(i)[2] + 1
                  /\ (orientation = "Columns" /\ (i + 1) % rows # 0) =>
                        /\ CellOf(i + 1)[2] = CellOf(i)[2]
                        /\ CellOf(i + 1)[1] = CellOf(i)[1] + 1

C9_Witness ==
    /\ Rendered
    /\ orientation = "Columns"
    /\ item_count = 4
    /\ config.num_columns = 2
    /\ rows = 2

\* C10: for every non-empty item sequence and positive max_line_length the
\* search and the render run to completion without a panic: the candidate
\* list is not empty when a configuration is removed from it, every column
\* index computed during the scan is below the candidate's num_columns, the
\* divisor ceil(n / num_columns) is not zero, and rows >= 1 at render time.
C10_NoPanic ==
    (item_count > 0 /\ max_line_length > 0) =>
        /\ ~panicked
        /\ pc # "panic"
        /\ pc = "scan" =>
              /\ configs # <<>>
              /\ \A k \in 1..Len(configs) :
                    /\ configs[k].num_columns >= 1
                    /\ Len(configs[k].col_widths) = configs[k].num_columns
                    /\ ColDivisor(item_count, configs[k].num_columns) >= 1
                    /\ file_idx < item_count =>
                          ColIdx(orientation, file_idx, item_count, configs[k].num_columns)
                              < configs[k].num_columns
        /\ pc \in {"render", "done"} =>
              /\ Searched
              /\ config.num_columns >= 1
              /\ rows >= 1

C10_Witness ==
    /\ item_count = MaxItems
    /\ max_line_length > 0
    /\ pc = "done"
    /\ fmtResult = "Ok"
    /\ ~panicked
    /\ config.num_columns >= 2

\* the number of newline characters among the first j characters of the output
NewlinesUpTo(j) == Cardinality({m \in 1..j : out[m] = NEWLINE})

\* C11: for a non-empty item sequence the rendered text contains exactly
\* rows - 1 newline characters, one after each row except the last (the
\* characters of an item of row r have exactly r newlines before them, and
\* no row is empty); the output never ends with a newline.
C11_Newlines ==
    /\ (pc = "render" /\ row < rows) => NewlinesUpTo(Len(out)) = row
    /\ Rendered =>
          /\ NewlinesUpTo(Len(out)) = rows - 1
          /\ out # <<>>
          /\ out[Len(out)] # NEWLINE
          /\ out[1] # NEWLINE
          /\ \A j \in 1..(Len(out) - 1) :
                ~(out[j] = NEWLINE /\ out[j + 1] = NEWLINE)
          /\ \A m \in 1..Len(out) :
                out[m] >= 0 =>
                    \E j \in 1..Len(cells) :
                        cells[j][3] = out[m] /\ cells[j][1] = NewlinesUpTo(m)

C11_Witness ==
    /\ Rendered
    /\ rows = 2
    /\ config.num_columns = 2
    /\ item_count = 3
    /\ NewlinesUpTo(Len(out)) = 1

SetMax(S) == IF S = {} THEN 0 ELSE CHOOSE x \in S : \A y \in S : y <= x

\* the display widths of the items written in column col
WidthsInColumn(col) ==
    {data[cells[j][3] + 1] : j \in {m \in 1..Len(cells) : cells[m][2] = col}}

\* the highest-numbered column that holds an item
LastOccupied == SetMax({cells[j][2] : j \in 1..Len(cells)})

\* C13 as stated: in the selected configuration the width of the last
\* occupied column of the rendered grid includes no separator; it equals
\* max(3, widest display width among the items of that column).
C13_LastOccupiedUnpadded ==
    Rendered =>
        config.col_widths[LastOccupied + 1]
            = Max(MIN_COLUMN_WIDTH, SetMax(WidthsInColumn(LastOccupied)))

\* C13 amended: when the selected configuration is valid, the width of its
\* last column (index num_columns - 1) includes no separator: it equals
\* max(3, widest display width among the items of that column). That column
\* is the last occupied one under Rows, and under Columns exactly when
\* (num_columns - 1) * rows < item_count; when Columns leaves the trailing
\* columns empty, the last occupied column carries the separator: its width
\* is max(3, widest display width + 2). Widths 1,2,3 with max_line_length 10
\* under Columns select line_len < 10 with the width-3 item unpadded.
C13_LastColumnUnpadded ==
    (Rendered /\ config.valid) =>
        LET c == config.num_columns
        IN  /\ config.col_widths[c]
                  = Max(MIN_COLUMN_WIDTH, SetMax(WidthsInColumn(c - 1)))
            /\ (LastOccupied = c - 1)
                  <=> (orientation = "Rows" \/ (c - 1) * rows < item_count)
            /\ LastOccupied < c - 1 =>
                  config.col_widths[LastOccupied + 1]
                      = Max(MIN_COLUMN_WIDTH,
                            SetMax(WidthsInColumn(LastOccupied)) + 2)
            /\ (data = <<1, 2, 3>> /\ max_line_length = 10
                  /\ orientation = "Columns") =>
                  /\ config.line_len < 10
                  /\ \E j \in 1..Len(cells) :
                        cells[j][3] = 2 /\ config.col_widths[cells[j][2] + 1] = 3

C13_Witness ==
    /\ Rendered
    /\ config.valid
    /\ orientation = "Columns"
    /\ item_count = 4
    /\ config.num_columns = 3
    /\ LastOccupied = 1
    /\ data[4] = 2
    /\ config.col_widths = <<4, 4, 3>>

\* the cells (r, col) of the rows x c grid in which the renderer would write
\* item i if the candidate with c columns were selected
RenderCellsOf(i, c) ==
    LET nrows == RowCount(item_count, c)
    IN  {rc \in (0..(nrows - 1)) \X (0..(c - 1)) :
            CellIndex(orientation, rc[1], rc[2], c, nrows) = i}

\* C14: for every orientation, item count n, candidate column count c in
\* 1..upper and item index i < n, the column index the search assigns to item
\* i equals the column of the (single) cell in which the renderer writes item
\* i when that candidate is selected.
C14_SearchRenderAgree ==
    /\ (pc = "scan" /\ file_idx = 0) =>
          \A k \in 1..Len(configs) : \A i \in 0..(item_count - 1) :
              LET c == configs[k].num_columns
              IN  /\ RenderCellsOf(i, c) # {}
                  /\ \A rc \in RenderCellsOf(i, c) :
                        rc[2] = ColIdx(orientation, i, item_count, c)
    /\ pc \in {"render", "done"} =>
          \A j \in 1..Len(cells) :
              cells[j][2] = ColIdx(orientation, cells[j][3], item_count,
                                   config.num_columns)

C14_Witness ==
    /\ pc = "scan"
    /\ orientation = "Columns"
    /\ item_count = 4
    /\ Len(configs) = 4
    /\ file_idx = 0
    /\ RenderCellsOf(3, 3) = {<<1, 1>>}

\* C15: in every state reached during the scan (from candidate creation
\* through the last item, for a positive max_line_length), every candidate
\* whose valid flag is true satisfies line_len < max_line_length; a candidate
\* whose line_len meets or exceeds max_line_length has valid = false.
C15_ValidImpliesFits ==
    (pc = "scan" /\ max_line_length > 0) =>
        \A k \in 1..Len(configs) :
            configs[k].valid => configs[k].line_len < max_line_length

\* C16: once a candidate's valid flag is false during the scan, processing
\* any later item leaves that candidate's valid flag, col_widths and line_len
\* unchanged until the scan ends; the flag never returns to true.
C16_InvalidFrozen ==
    [][(pc = "scan" /\ pc' = "scan") =>
          /\ Len(configs') = Len(configs)
          /\ \A k \in 1..Len(configs) :
                ~configs[k].valid =>
                    /\ ~configs'[k].valid
                    /\ configs'[k].col_widths = configs[k].col_widths
                    /\ configs'[k].line_len = configs[k].line_len]_vars

\* an invalid candidate has skipped an item that would have grown a column
C16_Witness ==
    /\ pc = "scan"
    /\ file_idx = item_count
    /\ \E k \in 1..Len(configs) : \E i \in 0..(item_count - 1) :
          LET c   == configs[k].num_columns
              col == ColIdx(orientation, i, item_count, c)
          IN  /\ ~configs[k].valid
              /\ configs[k].col_widths[col + 1] < RealLen(data[i + 1], col, c)

RECURSIVE SumSeq(_)
SumSeq(s) == IF s = <<>> THEN 0 ELSE Head(s) + SumSeq(Tail(s))

\* C17: in every state reached during the scan, every candidate has exactly
\* num_columns entries in col_widths, each at least MIN_COLUMN_WIDTH, and
\* line_len equal to the sum of the entries; from one scan step to the next
\* no entry of col_widths decreases.
C17_WidthsWellFormed ==
    /\ [](pc = "scan" =>
            \A k \in 1..Len(configs) :
                /\ Len(configs[k].col_widths) = configs[k].num_columns
                /\ \A j \in 1..Len(configs[k].col_widths) :
                      configs[k].col_widths[j] >= MIN_COLUMN_WIDTH
                /\ configs[k].line_len = SumSeq(configs[k].col_widths))
    /\ [][(pc = "scan" /\ pc' = "scan") =>
            \A k \in 1..Len(configs) :
                /\ configs'[k].num_columns = configs[k].num_columns
                /\ \A j \in 1..Len(configs[k].col_widths) :
                      configs'[k].col_widths[j] >= configs[k].col_widths[j]]_vars

C17_Witness ==
    /\ pc = "scan"
    /\ file_idx = item_count
    /\ \E k \in 1..Len(configs) :
          /\ configs[k].num_columns = 3
          /\ configs[k].col_widths = <<5, 4, 3>>
          /\ configs[k].line_len = 12

\* the real lengths (display width, plus 2 unless col is the last column) of
\* the items the search maps to column col of a candidate with c columns
RealLensInColumn(col, c) ==
    {data[i + 1] + (IF col = c - 1 THEN 0 ELSE 2) :
        i \in {m \in 0..(item_count - 1) :
                  ColIdx(orientation, m, item_count, c) = col}}

FullyGrown(cfg) ==
    \A col \in 0..(cfg.num_columns - 1) :
        cfg.col_widths[col + 1]
            = Max(MIN_COLUMN_WIDTH, SetMax(RealLensInColumn(col, cfg.num_columns)))

\* C18: for every candidate that is still valid after the last item has been
\* scanned, each col_widths[k] equals max(3, the maximum over the items mapped
\* to column k of display width + 2, or display width alone if k is the last
\* column); so every item's display width is at most the width of the column
\* it is rendered in.
C18_ValidWidthsExact ==
    /\ (pc = "scan" /\ file_idx = item_count) =>
          \A k \in 1..Len(configs) : configs[k].valid => FullyGrown(configs[k])
    /\ (pc \in {"render", "done"} /\ config.valid) =>
          /\ FullyGrown(config)
          /\ \A j \in 1..Len(cells) :
                data[cells[j][3] + 1] <= config.col_widths[cells[j][2] + 1]

C18_Witness ==
    /\ Rendered
    /\ config.valid
    /\ config.num_columns = 3
    /\ config.col_widths = <<5, 3, 3>>
    /\ \E k \in 1..Len(configs) : configs[k].valid /\ configs[k].num_columns = 2

\* the columns written in row r
ColumnsOfRow(r) == {cells[j][2] : j \in {m \in 1..Len(cells) : cells[m][1] = r}}

\* the number of characters the written cells account for: each cell is its
\* item padded to the width of its column
RECURSIVE CellsChars(_)
CellsChars(cs) ==
    IF cs = <<>> THEN 0
    ELSE Max(data[Head(cs)[3] + 1], config.col_widths[Head(cs)[2] + 1])
         + CellsChars(Tail(cs))

\* C19: in every rendered row the populated cells form a non-empty prefix of
\* the columns: column 0 of every row holds an item, and once a cell's linear
\* index is out of bounds every later cell of that row is out of bounds too;
\* out-of-bounds cells contribute no characters to the output.
C19_RowPrefix ==
    Rendered =>
        /\ \A r \in 0..(row - 1) :
              /\ 0 \in ColumnsOfRow(r)
              /\ ColumnsOfRow(r) = 0..(Cardinality(ColumnsOfRow(r)) - 1)
              /\ \A col \in 0..(config.num_columns - 1) :
                    (col \in ColumnsOfRow(r))
                        <=> (CellIndex(orientation, r, col, config.num_columns, rows)
                                < item_count)
        /\ Len(out) - NewlinesUpTo(Len(out)) = CellsChars(cells)

C19_Witness ==
    /\ Rendered
    /\ orientation = "Rows"
    /\ item_count = 4
    /\ config.num_columns = 3
    /\ ColumnsOfRow(0) = {0, 1, 2}
    /\ ColumnsOfRow(1) = {0}

\* the sum of the column widths of the populated cells of row r
RowWidth(r) ==
    SumSeq([j \in 1..Cardinality(ColumnsOfRow(r)) |-> config.col_widths[j]])

AllItemsNarrower == \A i \in 1..item_count : data[i] < max_line_length

\* C20: for a non-empty item sequence in which every display width is
\* strictly less than max_line_length, with max_line_length >= 3 and either
\* orientation, every rendered row (the sum of the column widths of its
\* populated cells) is at most max_line_length characters long.
C20_RowsFit ==
    (pc \in {"render", "done"} /\ item_count > 0 /\ AllItemsNarrower
        /\ max_line_length >= MIN_COLUMN_WIDTH) =>
        \A r \in 0..(row - 1) :
            /\ ColumnsOfRow(r) = 0..(Cardinality(ColumnsOfRow(r)) - 1)
            /\ RowWidth(r) <= max_line_length

C20_Witness ==
    /\ Rendered
    /\ AllItemsNarrower
    /\ max_line_length = 10
    /\ config.num_columns = 2
    /\ config.col_widths = <<5, 3>>
    /\ \E k \in 1..Len(configs) :
          configs[k].num_columns = 3 /\ ~configs[k].valid
    /\ RowWidth(0) = 8

\* the position in the output of the end of the line that holds position j
LineEnd(j) ==
    IF \E m \in j..Len(out) : out[m] = NEWLINE
    THEN (CHOOSE m \in j..Len(out) :
            out[m] = NEWLINE /\ \A q \in j..(m - 1) : out[q] # NEWLINE) - 1
    ELSE Len(out)

\* C21: when the selected configuration is valid, two items written in
\* horizontally adjacent cells of the same row are separated by at least two
\* space characters: the left item's column width is at least its display
\* width plus 2.
C21_TwoSpaces ==
    (pc \in {"render", "done"} /\ config.valid) =>
        /\ \A j, m \in 1..Len(cells) :
              (cells[j][1] = cells[m][1] /\ cells[m][2] = cells[j][2] + 1) =>
                  config.col_widths[cells[j][2] + 1] >= data[cells[j][3] + 1] + 2
        /\ \A j \in 1..Len(out) :
              (/\ out[j] >= 0
               /\ j < LineEnd(j)
               /\ out[j + 1] # out[j]
               /\ \E m \in (j + 1)..LineEnd(j) : out[m] >= 0) =>
                  /\ j + 2 <= LineEnd(j)
                  /\ out[j + 1] = SPACE
                  /\ out[j + 2] = SPACE

C21_Witness ==
    /\ Rendered
    /\ config.valid
    /\ orientation = "Rows"
    /\ data = <<3, 2, 1>>
    /\ config.num_columns = 2
    /\ out = <<0, 0, 0, SPACE, SPACE, 1, 1, SPACE, NEWLINE, 2, SPACE, SPACE, SPACE, SPACE>>

\* the outer loop of get_column_config from item i on, as a function
RECURSIVE ScanFrom(_, _, _, _, _)
ScanFrom(cfgs, i, d, max_len, orient) ==
    IF i >= Len(d) THEN cfgs
    ELSE ScanFrom([k \in 1..Len(cfgs) |->
                      UpdateConfig(cfgs[k], orient, i, d[i + 1], Len(d), max_len)],
                  i + 1, d, max_len, orient)

\* the configuration get_column_config returns for non-empty data
get_column_config(d, max_len, orient) ==
    LET cfgs == ScanFrom(init_column_configs(max_len, Len(d), MIN_COLUMN_WIDTH),
                         0, d, max_len, orient)
    IN  cfgs[SelectPosition(cfgs) + 1]

\* C22: for a fixed non-empty item sequence and orientation, the selected
\* num_columns is non-decreasing in max_line_length: the search for
\* max_line_length - 1 selects at most as many columns as the configuration
\* selected for max_line_length. Every line length is explored with every
\* item sequence, so L1 <= L2 follows by chaining the adjacent lengths.
C22_MonotoneInLineLength ==
    (pc = "render" /\ row = 0) =>
        /\ config = get_column_config(data, max_line_length, orientation)
        /\ max_line_length > 0 =>
              get_column_config(data, max_line_length - 1, orientation).num_columns
                  <= config.num_columns

C22_Witness ==
    /\ pc = "render"
    /\ row = 0
    /\ item_count = 4
    /\ max_line_length = 12
    /\ config.num_columns = 3
    /\ get_column_config(data, 11, orientation).num_columns = 2
    /\ get_column_config(data, 7, orientation).num_columns = 1

\* the columns of the rendered grid that hold at least one item
PopulatedColumns == {cells[j][2] : j \in 1..Len(cells)}

\* C23 as stated: in the selected configuration every one of its num_columns
\* columns holds at least one item of the rendered grid, for both
\* orientations and every item count.
C23_AllColumnsPopulated ==
    Rendered => PopulatedColumns = 0..(config.num_columns - 1)

\* C23 amended: under Rows every one of the num_columns columns holds at
\* least one item; under Columns the populated columns are exactly the first
\* ceil(item_count / rows) columns, rows = ceil(item_count / num_columns), so
\* every column is populated exactly when (num_columns - 1) * rows <
\* item_count, and otherwise the trailing columns are empty (4 items in 3
\* columns fill columns 0 and 1 only).
C23_PopulatedColumns ==
    Rendered =>
        /\ orientation = "Rows" =>
              PopulatedColumns = 0..(config.num_columns - 1)
        /\ orientation = "Columns" =>
              /\ PopulatedColumns = 0..(((item_count + rows - 1) \div rows) - 1)
              /\ (PopulatedColumns = 0..(config.num_columns - 1))
                    <=> ((config.num_columns - 1) * rows < item_count)
        /\ (orientation = "Columns" /\ item_count = 4 /\ config.num_columns = 3)
              => PopulatedColumns = {0, 1}

C23_Witness ==
    /\ Rendered
    /\ orientation = "Columns"
    /\ item_count = 4
    /\ config.num_columns = 3
    /\ rows = 2
    /\ PopulatedColumns = {0, 1}

====
